---- MODULE Spec2Model ----
(***************************************************************************)
(* A model of package os8fs (github.com/pborman/pdp8): the word codec, the *)
(* image opener with its process-wide registry, the directory scanner and  *)
(* the filesystem operations File, List and Remove.                        *)
(*                                                                         *)
(* Go slices are 0-based; sequences here are 1-based, so word i of a Go    *)
(* slice is element i+1 (see W).  Strings are sequences of byte values.    *)
(* Errors are modelled by their kind (the text before the formatted        *)
(* arguments); "nil" is the nil error.  Two outcomes are not return        *)
(* values: "panic" (a Go run-time panic) and "hang" (the call never        *)
(* returns).                                                               *)
(***************************************************************************)
EXTENDS Integers, Sequences, FiniteSets, TLC

VARIABLES
    nativeOrder,  \* package variable nativeOrder (byte order of the host)
    DefaultImage, \* package variable DefaultImage (environment PDP8_IMAGE)
    files,        \* the host's files: absolute path -> NoFile or [size, blocks]
    fds,          \* every *os.File ever returned by os.Open/os.OpenFile
    disks,        \* every Disk object ever constructed by OpenImage
    drives,       \* the registry "drives": absolute path -> disk (0 is nil)
    driveMu,      \* the mutex driveMu: 0 when free, else the goroutine holding it
    pc,           \* per goroutine: where it stands inside Drive.OpenImage
    frame,        \* per goroutine: the locals of its running Drive.OpenImage
    last,         \* the most recently completed call and what it returned
    opened        \* history: per path, the opens answered since the last Close

vars == <<nativeOrder, DefaultImage, files, fds, disks, drives, driveMu, pc,
          frame, last, opened>>

-----------------------------------------------------------------------------
(* Bounds of the model.                                                    *)

\* every behaviour opens at most MaxFds descriptors
MaxFds == 2
\* the side-count loop of OpenImage is followed for at most MaxSpin iterations
MaxSpin == 3

-----------------------------------------------------------------------------
(* Program constants.                                                      *)

BlockWords == 256
BlockBytes == 512
MaxEntries == 40
HdrWords == 5
FileEntryWords == 6
FreeEntryWords == 2
Neg == 4096
U16 == 65536

nil == "nil"

\* words[i] of a Go slice
W(words, i) == words[i + 1]

\* x | 040 on a byte
Or040(x) == IF (x \div 32) % 2 = 1 THEN x ELSE x + 32

\* uint16 arithmetic: 010000 - w computed in 16 bits
Neg16(w) == (Neg - w) % U16

-----------------------------------------------------------------------------
(* The word codec.                                                         *)

raw2wordsNative(raw) == [i \in 1..(Len(raw) \div 2) |-> raw[2 * i - 1] + 256 * raw[2 * i]]

raw2wordsCopy(raw) ==
    [i \in 1..(Len(raw) \div 2) |-> ((raw[2 * i - 1] % U16) + ((raw[2 * i] * 256) % U16)) % U16]

raw2words(raw) == IF nativeOrder THEN raw2wordsNative(raw) ELSE raw2wordsCopy(raw)

words2rawNative(words) ==
    [k \in 1..(2 * Len(words)) |->
        IF k % 2 = 1 THEN words[(k + 1) \div 2] % 256
                     ELSE words[k \div 2] \div 256]

words2rawCopy(words) ==
    [k \in 1..(2 * Len(words)) |->
        IF k % 2 = 1 THEN words[(k + 1) \div 2] % 256
                     ELSE (words[k \div 2] \div 256) % 256]

words2raw(words) == IF nativeOrder THEN words2rawNative(words) ELSE words2rawCopy(words)

-----------------------------------------------------------------------------
(* The text codec and file names.                                          *)

\* one 6 bit character
Six(n) == IF n < 32 THEN n + 64 ELSE n

\* the low 6 bits first
ASCII6LowFirst(w) == << Six(w % 64), Six((w \div 64) % 64) >>

ASCII6(w) == << Six((w \div 64) % 64), Six(w % 64) >>

At == 64
Dot == 46
Colon == 58

\* strings.ToUpper on a byte string
ToUpper(s) == [i \in 1..Len(s) |-> IF s[i] >= 97 /\ s[i] <= 122 THEN s[i] - 32 ELSE s[i]]

\* the base name: the pairs of name[0..2] up to the first '@'
RECURSIVE NameBase(_, _)
NameBase(name, k) ==
    IF k > 3 THEN << >>
    ELSE LET a == ASCII6(name[k])
         IN  IF a[1] = At THEN << >>
             ELSE IF a[2] = At THEN << a[1] >>
             ELSE << a[1], a[2] >> \o NameBase(name, k + 1)

NameExt(w) ==
    LET a == ASCII6(w)
    IN  IF a[1] = At THEN << >>
        ELSE IF a[2] = At THEN << Dot, a[1] >>
        ELSE << Dot, a[1], a[2] >>

\* fileEntry.Name
EntryName(name) == NameBase(name, 1) \o NameExt(name[4])

\* fileEntry.Len
EntryLen(len) == Neg - len

\* the third byte with the two nibbles in each other's place
ASCII8Swapped(src0, src1, m) ==
    << (src0 % 256) % (m + 1),
       (src1 % 256) % (m + 1),
       ((((src1 \div 256) % 16) * 16) + ((src0 \div 256) % 16)) % (m + 1) >>

\* ASCII8: the three bytes of the words src[0] and src[1], each masked with m
ASCII8(src0, src1, m) ==
    << (src0 % 256) % (m + 1),
       (src1 % 256) % (m + 1),
       (((((src0 \div 16) % 256) \div 16) * 16) + ((src1 \div 256) % 16)) % (m + 1) >>

\* lines 167-170 of File.ASCII: the buffer after the loop
Packed(words, m) ==
    [k \in 1..((3 * Len(words)) \div 2) |->
        IF (k - 1) \div 3 < Len(words) \div 2
        THEN ASCII8(words[2 * ((k - 1) \div 3) + 1], words[2 * ((k - 1) \div 3) + 2], m)
                 [((k - 1) % 3) + 1]
        ELSE 0]

\* lines 171-176 of File.ASCII: ascii without its trailing zeros
Trimmed(ascii) ==
    IF \A k \in 1..Len(ascii) : ascii[k] = 0 THEN << >>
    ELSE SubSeq(ascii, 1, CHOOSE n \in 1..Len(ascii) :
                              ascii[n] # 0 /\ \A k \in (n + 1)..Len(ascii) : ascii[k] = 0)

\* File.ASCII
FileASCII(words, strip) == Trimmed(Packed(words, IF strip THEN 127 ELSE 255))

-----------------------------------------------------------------------------
(* Files of the host and positional I/O.  A file is its size in bytes and  *)
(* its contents by 512 byte block; a block that is not listed holds zeros. *)

NoFile == [size |-> -1, blocks |-> << >>]

ZeroBlock == [i \in 1..BlockBytes |-> 0]

RawBlock(file, b) == IF b \in DOMAIN file.blocks THEN file.blocks[b] ELSE ZeroBlock

\* A filesystem view together with what its descriptor reaches: the file
\* behind fs.fd, and whether that descriptor is open and writable.
View(fs) ==
    [file |-> files[fds[fs.fd].path], open |-> fds[fs.fd].open, rw |-> fds[fs.fd].rw,
     block0 |-> fs.block0, nblocks |-> fs.nblocks]

\* the bytes of blocks b .. b+cnt-1 of a file
RECURSIVE RawBlocks(_, _, _)
RawBlocks(file, b, cnt) ==
    IF cnt <= 0 THEN << >> ELSE RawBlock(file, b) \o RawBlocks(file, b + 1, cnt - 1)

\* f.fd.ReadAt(data, b*512) with len(data) = cnt*512
ReadAt(v, b, cnt) ==
    IF ~v.open \/ v.file = NoFile \/ (b + cnt) * BlockBytes > v.file.size
    THEN [err |-> "read", data |-> << >>]
    ELSE [err |-> nil, data |-> RawBlocks(v.file, b, cnt)]

\* WriteAt on a descriptor whatever the mode it was opened in
WriteAtAnyMode(v, b, data) ==
    IF ~v.open \/ v.file = NoFile
    THEN [err |-> "write", file |-> v.file]
    ELSE LET cnt  == Len(data) \div BlockBytes
             hit  == b..(b + cnt - 1)
             end  == (b + cnt) * BlockBytes
         IN  [err |-> nil,
              file |-> [size |-> IF end > v.file.size THEN end ELSE v.file.size,
                        blocks |-> [x \in (DOMAIN v.file.blocks) \cup hit |->
                                      IF x \in hit
                                      THEN [i \in 1..BlockBytes |-> data[(x - b) * BlockBytes + i]]
                                      ELSE v.file.blocks[x]]]]

\* f.fd.WriteAt(data, b*512) with len(data) = cnt*512: the error and the file after it
WriteAt(v, b, data) ==
    IF ~v.open \/ ~v.rw \/ v.file = NoFile
    THEN [err |-> "write", file |-> v.file]
    ELSE LET cnt  == Len(data) \div BlockBytes
             hit  == b..(b + cnt - 1)
             end  == (b + cnt) * BlockBytes
         IN  [err |-> nil,
              file |-> [size |-> IF end > v.file.size THEN end ELSE v.file.size,
                        blocks |-> [x \in (DOMAIN v.file.blocks) \cup hit |->
                                      IF x \in hit
                                      THEN [i \in 1..BlockBytes |-> data[(x - b) * BlockBytes + i]]
                                      ELSE v.file.blocks[x]]]]

\* lines 397-403 of getBlocks, r being what ReadAt returned
getBlocksRead(r) ==
    IF r.err # nil THEN [err |-> "getBlocks", words |-> << >>]
    ELSE [err |-> nil, words |-> raw2words(r.data)]

getBlocks(v, start, cnt) ==
    IF cnt <= 0 THEN [err |-> "getBlocks", words |-> << >>]
    ELSE IF start < 0 THEN [err |-> "getBlocks", words |-> << >>]
    ELSE IF start + cnt > v.nblocks THEN [err |-> "getBlocks", words |-> << >>]
    ELSE getBlocksRead(ReadAt(v, v.block0 + start, cnt))

\* writeBlocks that takes start for a block of the image, not of the side
writeBlocksOfImage(v, start, words) ==
    IF Len(words) = 0 \/ Len(words) % BlockWords # 0 \/ start < 0
       \/ start + Len(words) \div BlockWords > v.nblocks
    THEN [err |-> "writeBlocks", file |-> v.file]
    ELSE WriteAt(v, start, words2raw(words))

\* the error of writeBlocks and the file after it
writeBlocks(v, start, words) ==
    IF Len(words) = 0 THEN [err |-> nil, file |-> v.file]
    ELSE LET cnt == Len(words) \div BlockWords
         IN  IF cnt * BlockWords # Len(words) THEN [err |-> "writeBlocks", file |-> v.file]
             ELSE IF start < 0 THEN [err |-> "writeBlocks", file |-> v.file]
             ELSE IF start + cnt > v.nblocks THEN [err |-> "writeBlocks", file |-> v.file]
             ELSE WriteAt(v, v.block0 + start, words2raw(words))

-----------------------------------------------------------------------------
(* The directory scanner.  A callback is given by its kind and the name it *)
(* closes over; acc is the state the closure captures.  A callback returns *)
(* nil, one of the two sentinels, or an error.                             *)

stopReading == "stop reading"
skipBlock == "skip block"

NoHandle ==
    [name |-> << >>, date |-> 0, size |-> 0, dir |-> 0, loc |-> 0, offset |-> 0,
     words |-> << >>, block0 |-> -1]

\* the callback of FileSystem.List; acc is fis
ListCb(sd, acc) ==
    IF sd.isfile
    THEN [ret |-> nil,
          acc |-> Append(acc, [Name |-> sd.name, Date |-> sd.date, Size |-> sd.size,
                               Offset |-> sd.block0])]
    ELSE [ret |-> nil, acc |-> acc]

\* lines 477-490 of the callback of FileSystem.File, g being what getBlocks returned
FileFound(v, name, sd, acc, g) ==
    IF g.err # nil THEN [ret |-> g.err, acc |-> acc]
    ELSE [ret |-> stopReading,
          acc |-> [name |-> name, date |-> sd.date, size |-> sd.size, dir |-> sd.index,
                   loc |-> sd.loc, offset |-> sd.block0, words |-> g.words,
                   block0 |-> v.block0]]

\* a callback of File that goes on reading after the entry it was looking for
FileCbOn(v, name, sd, acc) ==
    IF ~sd.isfile \/ sd.name # name THEN [ret |-> nil, acc |-> acc]
    ELSE [FileFound(v, name, sd, acc, getBlocks(v, sd.block0, sd.size)) EXCEPT !.ret = nil]

\* the callback of FileSystem.File; acc is file
FileCb(v, name, sd, acc) ==
    IF ~sd.isfile \/ sd.name # name THEN [ret |-> nil, acc |-> acc]
    ELSE FileFound(v, name, sd, acc, getBlocks(v, sd.block0, sd.size))

\* the entry is made a free one, and what follows it is left where it was
CollapseInPlace(words, loc, size) ==
    [k \in 1..Len(words) |->
        IF k - 1 = loc THEN 0
        ELSE IF k - 1 = loc + 1 THEN (Neg - size) % U16
        ELSE words[k]]

\* the words behind the entry move up, and zeros follow them
CollapseToEnd(words, loc, size) ==
    [k \in 1..Len(words) |->
        IF k - 1 = loc THEN 0
        ELSE IF k - 1 = loc + 1 THEN (Neg - size) % U16
        ELSE IF k - 1 >= loc + 2 /\ k - 1 + 4 < Len(words) THEN words[k + 4]
        ELSE IF k - 1 >= loc + 2 THEN 0
        ELSE words[k]]

\* sd.words after lines 657-659 of Remove's callback
Collapse(words, loc, size) ==
    [k \in 1..Len(words) |->
        IF k - 1 = loc THEN 0
        ELSE IF k - 1 = loc + 1 THEN (Neg - size) % U16
        ELSE IF k - 1 >= loc + 2 /\ k - 1 + 4 < Len(words) THEN words[k + 4]
        ELSE words[k]]

\* lines 660-661 of the callback of FileSystem.Remove, w being what writeBlocks returned
Written(sd, w) ==
    [ret |-> stopReading,
     acc |-> [found |-> TRUE, werr |-> w.err, file |-> w.file, index |-> sd.index,
              loc |-> sd.loc]]

\* a callback of Remove that finds the entry and writes nothing back
RemoveCbUnwritten(v, name, sd, acc) ==
    IF ~sd.isfile \/ sd.name # name THEN [ret |-> nil, acc |-> acc]
    ELSE Written(sd, [err |-> nil, file |-> v.file])

\* the callback of FileSystem.Remove; acc is (found, werr) and the file as written
RemoveCb(v, name, sd, acc) ==
    IF ~sd.isfile \/ sd.name # name THEN [ret |-> nil, acc |-> acc]
    ELSE Written(sd, writeBlocks(v, sd.index, Collapse(sd.words, sd.loc, sd.size)))

\* a callback that keeps what every scanData it is handed says of its entry
RecordsCb(sd, acc) ==
    [ret |-> nil,
     acc |-> Append(acc, [isfile |-> sd.isfile, name |-> sd.name, date |-> sd.date,
                          size |-> sd.size, block0 |-> sd.block0, index |-> sd.index,
                          loc |-> sd.loc])]

\* a callback that keeps the entries it is handed as RecordsCb does and
\* returns cb.answer for the entry that is the cb.at-th, nil for the others
ProbeCb(cb, sd, acc) ==
    [ret |-> IF Len(acc) + 1 = cb.at THEN cb.answer ELSE nil, acc |-> RecordsCb(sd, acc).acc]

\* cb(&scanData{...})
Callback(v, cb, sd, acc) ==
    CASE cb.kind = "List" -> ListCb(sd, acc)
      [] cb.kind = "Records" -> RecordsCb(sd, acc)
      [] cb.kind = "Probe" -> ProbeCb(cb, sd, acc)
      [] cb.kind = "File" -> FileCb(v, cb.name, sd, acc)
      [] cb.kind = "Remove" -> RemoveCb(v, cb.name, sd, acc)

RECURSIVE Reading(_, _, _, _, _)

\* skipBlock ends the scan as stopReading does
AnsweredSkipEnds(v, cb, blk, s, sd, r) ==
    CASE r.ret = nil ->
            Reading(v, cb, blk,
                    [i |-> s.i + 1,
                     loc |-> s.loc + (IF sd.isfile THEN FileEntryWords ELSE FreeEntryWords),
                     block0 |-> s.block0 + sd.size],
                    r.acc)
      [] r.ret = stopReading -> [ctl |-> "return", err |-> nil, acc |-> r.acc]
      [] r.ret = skipBlock -> [ctl |-> "return", err |-> nil, acc |-> r.acc]
      [] OTHER -> [ctl |-> "return", err |-> r.ret, acc |-> r.acc]

\* lines 592-603 and 619-629: what the loop does with the callback's answer r
Answered(v, cb, blk, s, sd, r) ==
    CASE r.ret = nil ->
            Reading(v, cb, blk,
                    [i |-> s.i + 1,
                     loc |-> s.loc + (IF sd.isfile THEN FileEntryWords ELSE FreeEntryWords),
                     block0 |-> s.block0 + sd.size],
                    r.acc)
      [] r.ret = stopReading -> [ctl |-> "return", err |-> nil, acc |-> r.acc]
      [] r.ret = skipBlock -> [ctl |-> "next", err |-> nil, acc |-> r.acc]
      [] OTHER -> [ctl |-> "return", err |-> r.ret, acc |-> r.acc]

\* lines 582-618: the entry at s.loc is handed to the callback
Entry(v, cb, blk, s, acc, sd) ==
    IF sd.isfile /\ s.block0 + sd.size > v.nblocks
    THEN [ctl |-> "return", err |-> "corrupt directory", acc |-> acc]
    ELSE Answered(v, cb, blk, s, sd, Callback(v, cb, sd, acc))

\* the scanData of the entry at word loc of a directory block
ScanData(blk, s) ==
    IF W(blk.words, s.loc) = 0
    THEN [index |-> blk.index, loc |-> s.loc, block0 |-> s.block0,
          size |-> Neg16(W(blk.words, s.loc + 1)), words |-> blk.words, isfile |-> FALSE,
          name |-> << >>, date |-> 0]
    ELSE [index |-> blk.index, loc |-> s.loc, block0 |-> s.block0,
          size |-> EntryLen(W(blk.words, s.loc + 5)), words |-> blk.words, isfile |-> TRUE,
          name |-> EntryName([k \in 1..4 |-> W(blk.words, s.loc + k - 1)]),
          date |-> W(blk.words, s.loc + 4)]

\* the loop "Reading" over the entries of one directory block
Reading(v, cb, blk, s, acc) ==
    IF s.i >= blk.nfiles THEN [ctl |-> "next", err |-> nil, acc |-> acc]
    ELSE Entry(v, cb, blk, s, acc, ScanData(blk, s))

RECURSIVE scanFrom(_, _, _, _, _)

\* line 563: after a block, go on with the block its header names
scanNext(v, cb, next, seen, r) ==
    IF r.ctl = "return" THEN [err |-> r.err, acc |-> r.acc]
    ELSE scanFrom(v, cb, next, r.acc, seen)

\* lines 565-630: one directory block, g being what getBlocks returned
scanBlock(v, cb, index, acc, seen, g) ==
    IF g.err # nil THEN [err |-> g.err, acc |-> acc]
    ELSE IF Neg16(W(g.words, 0)) > MaxEntries THEN [err |-> "too many entries", acc |-> acc]
    ELSE scanNext(v, cb, W(g.words, 2), seen \cup {index},
                  Reading(v, cb,
                          [index |-> index, words |-> g.words, nfiles |-> Neg16(W(g.words, 0))],
                          [i |-> 0, loc |-> HdrWords, block0 |-> W(g.words, 1)], acc))

\* the loop of scan over the chained directory blocks, from block index on;
\* seen are the blocks already read: reading one again repeats the same
\* steps for ever, the image and the callback's answers being the same
scanFrom(v, cb, index, acc, seen) ==
    IF index = 0 THEN [err |-> nil, acc |-> acc]
    ELSE IF index \in seen THEN [err |-> "hang", acc |-> acc]
    ELSE scanBlock(v, cb, index, acc, seen, getBlocks(v, index, 1))

scan(v, cb, acc) == scanFrom(v, cb, 1, acc, {})

-----------------------------------------------------------------------------
(* Filesystem operations on one view.                                      *)

\* strconv.ParseUint(s, 0, 16), for strings without '_'
DigitVal(c) ==
    IF c >= 48 /\ c <= 57 THEN c - 48
    ELSE IF Or040(c) >= 97 /\ Or040(c) <= 122 THEN Or040(c) - 97 + 10
    ELSE 99

RECURSIVE ParseDigits(_, _, _, _)
ParseDigits(s, k, base, n) ==
    IF k > Len(s) THEN [err |-> nil, n |-> n]
    ELSE IF DigitVal(s[k]) >= base THEN [err |-> "syntax", n |-> 0]
    ELSE IF n * base + DigitVal(s[k]) >= U16 THEN [err |-> "range", n |-> U16 - 1]
    ELSE ParseDigits(s, k + 1, base, n * base + DigitVal(s[k]))

ParseUint(s) ==
    IF Len(s) = 0 THEN [err |-> "syntax", n |-> 0]
    ELSE IF s[1] # 48 THEN ParseDigits(s, 1, 10, 0)
    ELSE IF Len(s) >= 3 /\ Or040(s[2]) = 98 THEN ParseDigits(s, 3, 2, 0)
    ELSE IF Len(s) >= 3 /\ Or040(s[2]) = 111 THEN ParseDigits(s, 3, 8, 0)
    ELSE IF Len(s) >= 3 /\ Or040(s[2]) = 120 THEN ParseDigits(s, 3, 16, 0)
    ELSE ParseDigits(s, 2, 8, 0)

dotBlock == << 46, 66, 76, 79, 67, 75 >>

HasPrefix(s, pre) == Len(s) >= Len(pre) /\ SubSeq(s, 1, Len(pre)) = pre

\* strings.Index(s, "-"), or -1
RECURSIVE IndexDash(_, _)
IndexDash(s, k) ==
    IF k > Len(s) THEN -1 ELSE IF s[k] = 45 THEN k - 1 ELSE IndexDash(s, k + 1)

\* lines 458-469, g being what getBlocks returned
BlockRange(v, name, start, size, g) ==
    IF g.err # nil THEN [err |-> g.err, file |-> NoHandle]
    ELSE [err |-> nil,
          file |-> [name |-> name, date |-> 0, size |-> size, dir |-> 0, loc |-> 0,
                    offset |-> start, words |-> g.words, block0 |-> v.block0]]

\* a range whose end lies past the last block is refused, not cut
BlockParsedUncut(v, name, ps, pe) ==
    IF ps.err # nil \/ pe.err # nil THEN [err |-> "invalid filename", file |-> NoHandle]
    ELSE IF pe.n < ps.n \/ ps.n >= v.nblocks \/ pe.n >= v.nblocks
    THEN [err |-> "invalid block range", file |-> NoHandle]
    ELSE BlockRange(v, name, ps.n, pe.n - ps.n + 1, getBlocks(v, ps.n, pe.n - ps.n + 1))

\* lines 444-458, ps and pe being what ParseUint returned
BlockParsed(v, name, ps, pe) ==
    IF ps.err # nil \/ pe.err # nil THEN [err |-> "invalid filename", file |-> NoHandle]
    ELSE IF pe.n < ps.n \/ ps.n >= v.nblocks
    THEN [err |-> "invalid block range", file |-> NoHandle]
    ELSE IF pe.n >= v.nblocks
    THEN BlockRange(v, name, ps.n, v.nblocks - ps.n, getBlocks(v, ps.n, v.nblocks - ps.n))
    ELSE BlockRange(v, name, ps.n, pe.n - ps.n + 1, getBlocks(v, ps.n, pe.n - ps.n + 1))

\* lines 438-443: starts and ends, cut at the index x of the first "-" of rest
BlockSplit(v, name, rest, x) ==
    IF x >= 0
    THEN BlockParsed(v, name, ParseUint(SubSeq(rest, 1, x)),
                     ParseUint(SubSeq(rest, x + 2, Len(rest))))
    ELSE BlockParsed(v, name, ParseUint(rest), ParseUint(rest))

\* lines 437-470 of FileSystem.File: the pseudo-file of raw blocks; name is upper case
BlockFile(v, name) ==
    BlockSplit(v, name, SubSeq(name, Len(dotBlock) + 1, Len(name)),
               IndexDash(SubSeq(name, Len(dotBlock) + 1, Len(name)), 1))

\* lines 491-497, r being what scan returned
FileScanned(r) ==
    IF r.err # nil THEN [err |-> r.err, file |-> NoHandle]
    ELSE IF r.acc # NoHandle THEN [err |-> nil, file |-> r.acc]
    ELSE [err |-> "file not found", file |-> NoHandle]

\* lines 430-437 and 471, name being upper case
FileNamed(v, name) ==
    IF HasPrefix(name, dotBlock) THEN BlockFile(v, name)
    ELSE FileScanned(scan(v, [kind |-> "File", name |-> name], NoHandle))

\* FileSystem.File
FSFile(v, name) ==
    IF name = << >> THEN [err |-> "missing filename", file |-> NoHandle]
    ELSE FileNamed(v, ToUpper(name))

\* line 536, r being what scan returned
Listed(r) == [err |-> r.err, fis |-> r.acc]

\* FileSystem.List: (fis, err)
FSList(v) == Listed(scan(v, [kind |-> "List"], << >>))

\* lines 663-669, r being what scan returned
Removed(r) ==
    [err   |-> IF r.err # nil THEN r.err
               ELSE IF ~r.acc.found THEN "file not found"
               ELSE r.acc.werr,
     file  |-> r.acc.file,
     index |-> r.acc.index,
     loc   |-> r.acc.loc]

\* FileSystem.Remove: the error returned, the file as the call leaves it, and
\* the directory block and entry location the callback collapsed (-1: none)
FSRemove(v, name) ==
    Removed(scan(v, [kind |-> "Remove", name |-> ToUpper(name)],
                 [found |-> FALSE, werr |-> nil, file |-> v.file, index |-> -1, loc |-> -1]))

\* every entry a complete scan of the view hands to its callback, in order
Records(v) == scan(v, [kind |-> "Records"], << >>)

\* the positions in recs of the file entries called name
Matches(recs, name) == {i \in 1..Len(recs) : recs[i].isfile /\ recs[i].name = name}

-----------------------------------------------------------------------------
(* Operations on a Disk.                                                   *)

\* Disk.getFS: side is the index n into d.sides, -1 for a nil *FileSystem,
\* -2 when the index expression d.sides[n] panics
getFS(d, name) ==
    IF Len(name) > 2 /\ name[2] = Colon
    THEN LET n == Or040(name[1]) - 97
         IN  IF n < 0 \/ n > Len(d.sides) THEN [side |-> -1, name |-> name]
             ELSE IF n >= Len(d.sides) THEN [side |-> -2, name |-> name]
             ELSE [side |-> n, name |-> SubSeq(name, 3, Len(name))]
    ELSE IF Len(d.sides) = 0 THEN [side |-> -2, name |-> name]
    ELSE [side |-> 0, name |-> name]

\* lines 379-382 of Disk.File, r being what getFS returned
FileOn(d, r) ==
    IF r.side = -2 THEN [err |-> "panic", file |-> NoHandle, side |-> -2]
    ELSE IF r.side = -1 THEN [err |-> "side not found", file |-> NoHandle, side |-> -1]
    ELSE FSFile(View(d.sides[r.side + 1]), r.name) @@ [side |-> r.side]

\* Disk.File
DiskFile(d, name) == FileOn(d, getFS(d, name))

\* lines 640-643 of Disk.Remove, r being what getFS returned
RemoveOn(d, r) ==
    IF r.side = -2
    THEN [err |-> "panic", side |-> -2, file |-> files[d.path], index |-> -1, loc |-> -1]
    ELSE IF r.side = -1
    THEN [err |-> "side not found", side |-> -1, file |-> files[d.path], index |-> -1,
          loc |-> -1]
    ELSE FSRemove(View(d.sides[r.side + 1]), r.name) @@ [side |-> r.side]

\* Disk.Remove
DiskRemove(d, name) == RemoveOn(d, getFS(d, name))

\* fmt.Sprintf("%c:%s", s+'A', fi.Name) over fis
Prefixed(fis, s) == [i \in 1..Len(fis) |-> [fis[i] EXCEPT !.Name = << s + 65, Colon >> \o @]]

RECURSIVE DiskListFrom(_, _, _)

\* lines 509-517 of Disk.List, r being what fs.List returned for side s
SideListed(d, s, cfis, r) ==
    IF r.err # nil THEN [err |-> r.err, fis |-> cfis]
    ELSE DiskListFrom(d, s + 1, cfis \o (IF Len(d.sides) > 1 THEN Prefixed(r.fis, s) ELSE r.fis))

\* the loop of Disk.List from side s (0-based) on
DiskListFrom(d, s, cfis) ==
    IF s >= Len(d.sides) THEN [err |-> nil, fis |-> cfis]
    ELSE SideListed(d, s, cfis, FSList(View(d.sides[s + 1])))

\* Disk.List
DiskList(d) ==
    IF Len(d.sides) = 0 THEN [err |-> nil, fis |-> << >>] ELSE DiskListFrom(d, 0, << >>)

-----------------------------------------------------------------------------
(* Drive geometries (package variables RK05, RX01, Generic).               *)

RK05 == [Bytes |-> 1662976, Sides |-> 2]
RX01 == [Bytes |-> 256256, Sides |-> 1]
Generic == [Bytes |-> 0, Sides |-> 0]

Drives == {RK05, RX01, Generic}

-----------------------------------------------------------------------------
(* Images on the host, built as the package documentation lays them out.   *)

\* a character as 6 bit ascii
C6(c) == IF c >= 64 THEN c - 64 ELSE c

\* the k-th word of a name field: two characters, padded with '@' (0)
Pair(s, k) ==
    64 * (IF 2 * k - 1 <= Len(s) THEN C6(s[2 * k - 1]) ELSE 0)
    + (IF 2 * k <= Len(s) THEN C6(s[2 * k]) ELSE 0)

\* a 6 word file entry and a 2 word free entry
FileEnt(base, ext, date, len) ==
    << Pair(base, 1), Pair(base, 2), Pair(base, 3), Pair(ext, 1), date, Neg - len >>

FreeEnt(len) == << 0, Neg - len >>

\* a directory block: header, entries, then whatever the block held before
DirBlock(nfiles, block0, next, entries) ==
    LET head == << Neg - nfiles, block0, next, 1365, 2730 >> \o entries
    IN  [k \in 1..BlockWords |-> IF k <= Len(head) THEN head[k] ELSE 3000 + k]

\* 256 words as 512 bytes on disk
OnDisk(words) ==
    [k \in 1..BlockBytes |->
        IF k % 2 = 1 THEN words[(k + 1) \div 2] % 256 ELSE words[k \div 2] \div 256]

\* a data block whose contents tell it from every other
DataBlock(seed) == OnDisk([k \in 1..BlockWords |-> (seed * 257 + k) % Neg])

\* file names used as arguments and on disk
sX == << 88 >>
sA == << 65 >>
sB == << 66 >>
sTX == << 84, 88 >>
sGO == << 71, 79 >>
sNAME == << 78, 65, 77, 69 >>

\* blocks per side of an RK05
RKBlocks == RK05.Bytes \div BlockBytes

\* side A of the two-sided image: two chained directory blocks, every name
\* once; the first entry is a 3 block file starting at data block 14
DirA1 == DirBlock(3, 14, 2, FileEnt(sX, << >>, 1826, 3) \o FreeEnt(2) \o FileEnt(sA, sTX, 0, 1))
\* the name fields 1601 1505 0000 0717 and 1616 1505 0000 0717, in octal
NameGo == << 897, 837, 0, 463 >>
NnmeGo == << 910, 837, 0, 463 >>

DirA2 == DirBlock(2, 20, 0, FileEnt(sNAME, sGO, 1314, 1) \o NnmeGo \o << 1315, Neg - 1 >>)

\* side B: a directory block in which the name X occurs twice, and a second
\* one whose free blocks 9..11 begin within the last file of the first
DirB1 == DirBlock(3, 7, 2, FileEnt(sX, << >>, 801, 1) \o FileEnt(sB, sTX, 0, 1)
                           \o FileEnt(sX, << >>, 802, 2))
DirB2 == DirBlock(1, 9, 0, FreeEnt(3))

\* the directory of a two block image: its second entry reaches past the end
DirT ==
    DirBlock(3, 1, 0, FileEnt(sNAME, sGO, 1314, 1) \o FreeEnt(5) \o FileEnt(sB, sTX, 0, 5))

\* a data block of packed text that begins with the words 0x1C1 and 0x2D2
PackedBlock ==
    OnDisk([k \in 1..BlockWords |-> IF k = 1 THEN 449 ELSE IF k = 2 THEN 722 ELSE (k * 19) % Neg])

\* a data block that uses all 8 bits of every byte
WideBlock == [k \in 1..BlockBytes |-> (k * 73 + 5) % 256]

\* two directory blocks that name one another as the next: 1 -> 2 -> 1
DirR1 == DirBlock(2, 3, 2, FileEnt(sX, << >>, 1826, 1) \o FreeEnt(0))
DirR2 == DirBlock(0, 4, 1, << >>)

SideA == (1 :> OnDisk(DirA1)) @@ (2 :> OnDisk(DirA2)) @@ (14 :> DataBlock(14))
         @@ (20 :> WideBlock)

SideB ==
    (RKBlocks + 1 :> OnDisk(DirB1)) @@ (RKBlocks + 2 :> OnDisk(DirB2))
        @@ (RKBlocks + 7 :> PackedBlock)

ImagePath == "/w/os8.rk05"

\* what the host holds when the program starts: one image file, the
\* environment's PDP8_IMAGE, and the host's byte order
Worlds ==
    { [file |-> [size |-> 2 * RK05.Bytes, blocks |-> SideA @@ SideB], env |-> "", native |-> TRUE],
      [file |-> [size |-> RK05.Bytes, blocks |-> SideA], env |-> ImagePath, native |-> FALSE],
      [file |-> [size |-> 2 * RK05.Bytes + BlockBytes, blocks |-> SideA @@ SideB], env |-> "",
       native |-> TRUE],
      [file |-> [size |-> 2 * BlockBytes, blocks |-> (1 :> OnDisk(DirT))], env |-> "",
       native |-> TRUE],
      [file |-> [size |-> 4 * BlockBytes,
                 blocks |-> (1 :> OnDisk(DirR1)) @@ (2 :> OnDisk(DirR2))], env |-> "",
       native |-> TRUE] }

AbsPaths == {ImagePath, "/w/none.rk05"}

\* the paths handed to OpenImage; the working directory is /w
RawPaths == {"", "os8.rk05", ImagePath, "/w/none.rk05"}

\* filepath.Abs
Abs(path) == IF path = "os8.rk05" THEN ImagePath ELSE path

\* names handed to Disk.File and Disk.Remove
sNONE == << 78, 79, 78, 69 >>
sLower == << 110, 97, 109, 101, Dot, 103, 111 >>
Side(c, name) == << c, Colon >> \o name
\* a number in decimal digits
RECURSIVE Dec(_)
Dec(n) == IF n < 10 THEN << 48 + n >> ELSE Dec(n \div 10) \o << 48 + (n % 10) >>

\* the names ".BLOCK<s>" and ".BLOCK<s>-<e>"
Block1(st) == dotBlock \o Dec(st)
Block2(st, en) == dotBlock \o Dec(st) \o << 45 >> \o Dec(en)

BlockNames ==
    { Block2(14, 16), Block1(14), << 46, 98, 108, 111, 99, 107 >> \o Dec(20), Block2(16, 14),
      Block1(RKBlocks), Block2(2 * RKBlocks - 1, 9999),
      Side(66, Block2(RKBlocks - 1, 9999)), Side(66, Block1(7)) }

FileNames ==
    { sX, sLower, sNONE, Side(65, sX), Side(66, sX), Side(98, << 120 >>), Side(67, sX),
      Side(68, sX), Side(49, sX) } \cup BlockNames
RemoveNames == { sX, sLower, sNONE, Side(66, sX), Side(67, sX) }

-----------------------------------------------------------------------------
(* The state machine.                                                      *)

Goroutines == {1, 2}

NoFrame == [arg |-> Generic, d |-> Generic, path |-> "", rw |-> FALSE, fd |-> 0, size |-> 0]

\* what a call of Remove leaves for the next call to see: its error, and how
\* often its name occurred in a directory that did or did not scan to its end
NoPrev == [err |-> "none", occ |-> 0, wf |-> FALSE]

NoCall ==
    [op |-> "none", g |-> 0, disk |-> 0, name |-> << >>, err |-> nil, file |-> NoHandle,
     fis |-> << >>, side |-> -1, index |-> -1, loc |-> -1, fd |-> 0, path |-> "",
     d |-> Generic, occ |-> 0, wf |-> FALSE, prev |-> NoPrev, before |-> << >>,
     listed |-> << >>, out |-> << >>, strip |-> FALSE]

NoOpens == [handles |-> {}, fds |-> {}, asked |-> {}]

InitWith(ws) ==
    \E w \in ws :
        /\ nativeOrder = w.native
        /\ DefaultImage = w.env
        /\ files = [p \in AbsPaths |-> IF p = ImagePath THEN w.file ELSE NoFile]
        /\ fds = << >>
        /\ disks = << >>
        /\ drives = [p \in AbsPaths |-> 0]
        /\ driveMu = 0
        /\ pc = [g \in Goroutines |-> "idle"]
        /\ frame = [g \in Goroutines |-> NoFrame]
        /\ last = NoCall
        /\ opened = [p \in AbsPaths |-> NoOpens]

Init == InitWith(Worlds)

\* lines 320-325 of Drive.OpenImage
Geometry(d, size) ==
    LET sides == IF d.Sides = 0 THEN 1 ELSE d.Sides
    IN  [Bytes |-> IF d.Bytes = 0 THEN size \div sides ELSE d.Bytes, Sides |-> sides]

\* the condition of the loop at line 331
MoreSides(d, size) == d.Bytes * d.Sides < size

\* a deferred function that closes nothing
DeferNothing(fd, err) == [fd EXCEPT !.open = TRUE]

\* the deferred function of lines 311-315: fd as the return leaves it
DeferClose(fd, err) == [fd EXCEPT !.open = (err = nil)]

\* sides that all start at the first block of the image
MakeSidesAtZero(fd, d) ==
    [s \in 1..d.Sides |-> [fd |-> fd, block0 |-> 0, nblocks |-> d.Bytes \div BlockBytes]]

\* lines 345-351
MakeSides(fd, d) ==
    [s \in 1..d.Sides |->
        [fd |-> fd, block0 |-> ((s - 1) * d.Bytes) \div BlockBytes, nblocks |-> d.Bytes \div BlockBytes]]

\* a return of OpenImage by goroutine g: the deferred Unlock runs
Return(g, disk, err, fd) ==
    /\ pc' = [pc EXCEPT ![g] = "idle"]
    /\ frame' = [frame EXCEPT ![g] = NoFrame]
    /\ driveMu' = 0
    /\ last' = [NoCall EXCEPT !.op = "OpenImage", !.g = g, !.disk = disk, !.err = err,
                              !.fd = fd, !.path = frame[g].path, !.d = frame[g].arg]

\* lines 287-296: the path is resolved
OpenImageCall(g, d, path, rw) ==
    /\ pc[g] = "idle"
    /\ Len(fds) < MaxFds
    /\ LET p == IF path = "" THEN DefaultImage ELSE path
       IN  IF p = ""
           THEN /\ last' = [NoCall EXCEPT !.op = "OpenImage", !.g = g, !.err = "no path to drive"]
                /\ UNCHANGED <<pc, frame>>
           ELSE /\ pc' = [pc EXCEPT ![g] = "lock"]
                /\ frame' = [frame EXCEPT ![g] = [NoFrame EXCEPT !.arg = d, !.d = d, !.path = Abs(p),
                                                                    !.rw = rw]]
                /\ last' = NoCall
    /\ UNCHANGED <<nativeOrder, DefaultImage, files, fds, disks, drives, driveMu, opened>>

\* a Lock that does not wait for the holder of the mutex
OpenImageNoLock(g) ==
    /\ pc[g] = "lock"
    /\ driveMu' = g
    /\ pc' = [pc EXCEPT ![g] = "open"]
    /\ UNCHANGED <<nativeOrder, DefaultImage, files, fds, disks, drives, frame, last, opened>>

\* line 297: driveMu.Lock()
OpenImageLock(g) ==
    /\ pc[g] = "lock"
    /\ driveMu = 0
    /\ driveMu' = g
    /\ pc' = [pc EXCEPT ![g] = "open"]
    /\ UNCHANGED <<nativeOrder, DefaultImage, files, fds, disks, drives, frame, last, opened>>

\* lines 299-328: the registry is consulted, the file opened and measured
OpenImageOpen(g, statOK) ==
    /\ pc[g] = "open"
    /\ LET f    == frame[g]
           file == files[f.path]
           fd   == Len(fds) + 1
           new  == [path |-> f.path, rw |-> f.rw, open |-> TRUE]
           d    == Geometry(f.d, file.size)
       IN  IF drives[f.path] # 0
           THEN /\ Return(g, drives[f.path], nil, 0)
                /\ opened' = [opened EXCEPT ![f.path].handles = @ \cup {drives[f.path]},
                                             ![f.path].asked = @ \cup {f.rw}]
                /\ UNCHANGED fds
           ELSE IF file = NoFile
           THEN /\ Return(g, 0, "open", 0)
                /\ UNCHANGED <<fds, opened>>
           ELSE IF ~statOK
           THEN /\ Return(g, 0, "stat", fd)
                /\ fds' = Append(fds, DeferClose(new, "stat"))
                /\ UNCHANGED opened
           ELSE IF d.Bytes > file.size
           THEN /\ Return(g, 0, "truncated image", fd)
                /\ fds' = Append(fds, DeferClose(new, "truncated image"))
                /\ UNCHANGED opened
           ELSE /\ fds' = Append(fds, new)
                /\ pc' = [pc EXCEPT ![g] = "sides"]
                /\ frame' = [frame EXCEPT ![g] = [f EXCEPT !.d = d, !.fd = fd, !.size = file.size]]
                /\ UNCHANGED <<driveMu, last, opened>>
    /\ UNCHANGED <<nativeOrder, DefaultImage, files, disks, drives>>

\* lines 331-333: one iteration of the loop
OpenImageSides(g) ==
    /\ pc[g] = "sides"
    /\ MoreSides(frame[g].d, frame[g].size)
    /\ frame[g].d.Sides > 0 - MaxSpin
    /\ frame' = [frame EXCEPT ![g].d.Sides = @ - 1]
    /\ UNCHANGED <<nativeOrder, DefaultImage, files, fds, disks, drives, driveMu, pc, last, opened>>

\* lines 331-334, the iterations that follow once Sides is 0 or less: Bytes
\* being positive, Bytes * Sides stays below the size of the file while Sides
\* goes down, until the product leaves the range of int and wraps to a number
\* just below the greatest int; the loop ends there, and make panics with
\* that length.  The deferred Unlock runs, and err being nil the descriptor
\* stays open
OpenImageSidesWrap(g) ==
    /\ pc[g] = "sides"
    /\ MoreSides(frame[g].d, frame[g].size)
    /\ frame[g].d.Sides <= 0
    /\ pc' = [pc EXCEPT ![g] = "panicked"]
    /\ last' = [NoCall EXCEPT !.op = "OpenImage", !.g = g, !.err = "panic",
                              !.fd = frame[g].fd, !.path = frame[g].path, !.d = frame[g].arg]
    /\ driveMu' = 0
    /\ UNCHANGED <<nativeOrder, DefaultImage, files, fds, disks, drives, frame, opened>>

\* lines 334-353: the prefix is read, the Disk built and registered
OpenImageRead(g) ==
    /\ pc[g] = "sides"
    /\ ~MoreSides(frame[g].d, frame[g].size)
    /\ LET f == frame[g]
           n == f.d.Bytes * f.d.Sides
           disk == Len(disks) + 1
       IN  IF n < 0 \/ f.d.Sides < 0
           THEN /\ pc' = [pc EXCEPT ![g] = "panicked"]
                /\ last' = [NoCall EXCEPT !.op = "OpenImage", !.g = g, !.err = "panic",
                                          !.fd = f.fd, !.path = f.path, !.d = f.arg]
                /\ driveMu' = 0
                /\ UNCHANGED <<frame, fds, disks, drives, opened>>
           ELSE IF n > f.size
           THEN /\ Return(g, 0, "read", f.fd)
                /\ fds' = [fds EXCEPT ![f.fd] = DeferClose(@, "read")]
                /\ UNCHANGED <<disks, drives, opened>>
           ELSE /\ Return(g, disk, nil, f.fd)
                /\ fds' = [fds EXCEPT ![f.fd] = DeferClose(@, nil)]
                /\ disks' = Append(disks, [path |-> f.path, fd |-> f.fd, drive |-> f.d,
                                           sides |-> MakeSides(f.fd, f.d)])
                /\ drives' = [drives EXCEPT ![f.path] = disk]
                /\ opened' = [opened EXCEPT ![f.path] =
                                 [handles |-> @.handles \cup {disk}, fds |-> @.fds \cup {f.fd},
                                  asked |-> @.asked \cup {f.rw}]]
    /\ UNCHANGED <<nativeOrder, DefaultImage, files>>

\* what Disk.Close does to the descriptor table
CloseFd(d) == fds

\* Disk.Close
Close(g, d) ==
    /\ pc[g] = "idle"
    /\ d \in 1..Len(disks)
    /\ driveMu = 0
    /\ drives' = [drives EXCEPT ![disks[d].path] = 0]
    /\ fds' = CloseFd(disks[d])
    /\ opened' = [opened EXCEPT ![disks[d].path] = NoOpens]
    /\ last' = [NoCall EXCEPT !.op = "Close", !.g = g, !.disk = d, !.path = disks[d].path]
    /\ UNCHANGED <<nativeOrder, DefaultImage, files, disks, driveMu, pc, frame>>

\* where a call that ended in err leaves its goroutine
After(err) == IF err = "panic" THEN "panicked" ELSE IF err = "hang" THEN "hung" ELSE "idle"

\* a call of Disk.File
File(g, d, name) ==
    /\ pc[g] = "idle"
    /\ d \in 1..Len(disks)
    /\ \E r \in {DiskFile(disks[d], name)} :
           /\ last' = [NoCall EXCEPT !.op = "File", !.g = g, !.disk = d, !.name = name,
                                     !.err = r.err, !.file = r.file, !.side = r.side]
           /\ pc' = [pc EXCEPT ![g] = After(r.err)]
    /\ UNCHANGED <<nativeOrder, DefaultImage, files, fds, disks, drives, driveMu, frame, opened>>

\* a call of File.Bytes on the handle File returned last
Bytes(g) ==
    /\ pc[g] = "idle"
    /\ last.op \in {"File", "Bytes", "ASCII"} /\ last.err = nil
    /\ last' = [last EXCEPT !.op = "Bytes", !.g = g, !.strip = FALSE,
                            !.out = words2raw(last.file.words)]
    /\ UNCHANGED <<nativeOrder, DefaultImage, files, fds, disks, drives, driveMu, pc, frame,
                   opened>>

\* a call of File.ASCII on the handle File returned last
ASCII(g, strip) ==
    /\ pc[g] = "idle"
    /\ last.op \in {"File", "Bytes", "ASCII"} /\ last.err = nil
    /\ last' = [last EXCEPT !.op = "ASCII", !.g = g, !.strip = strip,
                            !.out = FileASCII(last.file.words, strip)]
    /\ UNCHANGED <<nativeOrder, DefaultImage, files, fds, disks, drives, driveMu, pc, frame,
                   opened>>

\* the directory a name addresses on a disk, as a complete scan reads it
Directory(d, r) ==
    IF r.side < 0 THEN [err |-> "side not found", acc |-> << >>]
    ELSE Records(View(d.sides[r.side + 1]))

\* what List returns for the side a name addresses on a disk
SideListing(d, r) ==
    IF r.side < 0 THEN << >> ELSE FSList(View(d.sides[r.side + 1])).fis

\* history: the directory as it is before this call, how often the name of
\* the call occurs in it, and what the call before it returned if that was a
\* Remove of the same name on the same disk
Seen(d, name, dir, lb, r) ==
    [before |-> dir.acc,
     listed |-> lb,
     occ  |-> Cardinality(Matches(dir.acc, ToUpper(r.name))),
     wf   |-> dir.err = nil,
     prev |-> IF last.op = "Remove" /\ last.disk = d /\ last.name = name
              THEN [err |-> last.err, occ |-> last.occ, wf |-> last.wf]
              ELSE NoPrev]

\* a call of Disk.Remove
Remove(g, d, name) ==
    /\ pc[g] = "idle"
    /\ d \in 1..Len(disks)
    /\ \E r \in {DiskRemove(disks[d], name)},
          h \in {Seen(d, name, Directory(disks[d], getFS(disks[d], name)),
                      SideListing(disks[d], getFS(disks[d], name)),
                      getFS(disks[d], name))} :
           /\ last' = [NoCall EXCEPT !.op = "Remove", !.g = g, !.disk = d, !.name = name,
                                     !.err = r.err, !.side = r.side, !.index = r.index,
                                     !.loc = r.loc, !.occ = h.occ, !.wf = h.wf,
                                     !.prev = h.prev, !.before = h.before,
                                     !.listed = h.listed]
           /\ files' = [files EXCEPT ![disks[d].path] = r.file]
           /\ pc' = [pc EXCEPT ![g] = After(r.err)]
    /\ UNCHANGED <<nativeOrder, DefaultImage, fds, disks, drives, driveMu, frame, opened>>

\* a call of Disk.List
List(g, d) ==
    /\ pc[g] = "idle"
    /\ d \in 1..Len(disks)
    /\ \E r \in {DiskList(disks[d])} :
           /\ last' = [NoCall EXCEPT !.op = "List", !.g = g, !.disk = d, !.err = r.err,
                                     !.fis = r.fis]
           /\ pc' = [pc EXCEPT ![g] = After(r.err)]
    /\ UNCHANGED <<nativeOrder, DefaultImage, files, fds, disks, drives, driveMu, frame, opened>>

\* one goroutine using the package
Next ==
    \/ \E d \in Drives, path \in RawPaths, rw \in BOOLEAN : OpenImageCall(1, d, path, rw)
    \/ OpenImageLock(1)
    \/ \E statOK \in BOOLEAN : OpenImageOpen(1, statOK)
    \/ OpenImageSides(1)
    \/ OpenImageSidesWrap(1)
    \/ OpenImageRead(1)
    \/ \E d \in 1..MaxFds : Close(1, d)
    \/ \E d \in 1..MaxFds, name \in FileNames : File(1, d, name)
    \/ Bytes(1)
    \/ \E strip \in BOOLEAN : ASCII(1, strip)
    \/ \E d \in 1..MaxFds, name \in RemoveNames : Remove(1, d, name)
    \/ \E d \in 1..MaxFds : List(1, d)

Spec == Init /\ [][Next]_vars

\* The specifications below run the same actions with fewer of them, or on
\* fewer arguments, so that each group of properties is checked over the
\* calls it is about.

\* one goroutine that opens and closes images
NextOpen ==
    \/ \E d \in Drives, path \in RawPaths, rw \in BOOLEAN : OpenImageCall(1, d, path, rw)
    \/ OpenImageLock(1)
    \/ \E statOK \in BOOLEAN : OpenImageOpen(1, statOK)
    \/ OpenImageSides(1)
    \/ OpenImageSidesWrap(1)
    \/ OpenImageRead(1)
    \/ \E d \in 1..MaxFds : Close(1, d)

SpecOpen == Init /\ [][NextOpen]_vars

\* the steps of goroutine g within a call of OpenImage
Running(g) ==
    \/ OpenImageLock(g)
    \/ \E statOK \in BOOLEAN : OpenImageOpen(g, statOK)
    \/ OpenImageSides(g)
    \/ OpenImageSidesWrap(g)
    \/ OpenImageRead(g)

\* SpecOpen with a goroutine that, once in OpenImage, goes on running
SpecOpenLive == SpecOpen /\ WF_vars(Running(1))

\* one goroutine that opens the image for reading and looks files up
NextFile ==
    \/ \E d \in Drives : OpenImageCall(1, d, ImagePath, FALSE)
    \/ OpenImageLock(1)
    \/ \E statOK \in BOOLEAN : OpenImageOpen(1, statOK)
    \/ OpenImageSides(1)
    \/ OpenImageSidesWrap(1)
    \/ OpenImageRead(1)
    \/ \E d \in 1..MaxFds, name \in FileNames : File(1, d, name)
    \/ Bytes(1)
    \/ \E strip \in BOOLEAN : ASCII(1, strip)
    \/ \E d \in 1..MaxFds : List(1, d)
    \/ \E d \in 1..MaxFds, name \in RemoveNames : Remove(1, d, name)

SpecFile == Init /\ [][NextFile]_vars

\* one goroutine that opens the image and removes files
NextRemove ==
    \/ \E d \in Drives, rw \in BOOLEAN : OpenImageCall(1, d, ImagePath, rw)
    \/ OpenImageLock(1)
    \/ \E statOK \in BOOLEAN : OpenImageOpen(1, statOK)
    \/ OpenImageSides(1)
    \/ OpenImageSidesWrap(1)
    \/ OpenImageRead(1)
    \/ \E d \in 1..MaxFds, name \in RemoveNames : Remove(1, d, name)
    \/ \E d \in 1..MaxFds : List(1, d)

SpecRemove == Init /\ [][NextRemove]_vars

\* the image two goroutines open at the same time
InitConc == InitWith({w \in Worlds : w.file.size = 2 * RK05.Bytes})

\* two goroutines that open and close the same image
NextConc ==
    \E g \in Goroutines :
        \/ \E d \in {RK05, RX01}, path \in {"os8.rk05", ImagePath} : OpenImageCall(g, d, path, TRUE)
        \/ OpenImageLock(g)
        \/ \E statOK \in BOOLEAN : OpenImageOpen(g, statOK)
        \/ OpenImageSides(g)
        \/ OpenImageSidesWrap(g)
        \/ OpenImageRead(g)
        \/ \E d \in 1..MaxFds : Close(g, d)

SpecConc == InitConc /\ [][NextConc]_vars

-----------------------------------------------------------------------------
(* Claims about Remove, under SpecRemove.                                  *)

\* the path of the image a call worked on, the view of the side its name
\* addressed, and the block of the image that holds directory block l.index
PathOf(l) == disks[l.disk].path
SideView(l) == View(disks[l.disk].sides[l.side + 1])
ImageBlock(l) == disks[l.disk].sides[l.side + 1].block0 + l.index

\* a file's blocks other than block b, those never written being zero
SameBut(old, new, b) ==
    /\ new.size = old.size
    /\ \A x \in ((DOMAIN old.blocks) \cup (DOMAIN new.blocks)) \ {b} :
           RawBlock(new, x) = RawBlock(old, x)

\* C1: a Remove that returns nil for a file whose entry lies in directory
\* block B of a side changes, of all the bytes of all the files, only the 512
\* bytes of the image at offset (block0 of the side + B) * 512
C1_RemoveChangesOneBlock ==
    [][(last'.op = "Remove" /\ last'.err = nil) =>
           /\ SameBut(files[PathOf(last')], files'[PathOf(last')], ImageBlock(last'))
           /\ \A p \in AbsPaths \ {PathOf(last')} : files'[p] = files[p]]_vars

\* C1: a file of side B has been removed; its directory is block 1 of that side
C1_Witness ==
    /\ last.op = "Remove" /\ last.err = nil /\ last.side = 1 /\ last.index = 1
    /\ ImageBlock(last) = RKBlocks + 1

\* what a scan record says of an entry, but for its place in the block
Rec(r) ==
    [isfile |-> r.isfile, name |-> r.name, date |-> r.date, size |-> r.size,
     block0 |-> r.block0, index |-> r.index]

\* the sequence without its j-th element
Without(seq, j) == [i \in 1..(Len(seq) - 1) |-> IF i < j THEN seq[i] ELSE seq[i + 1]]

\* k is where the one file called name stands among the records
Where(recs, name) == CHOOSE k \in Matches(recs, name) : TRUE

\* before and after are the records of the scans, lb and la the listings,
\* around the removal of the file at record k
RemovedAt(before, after, lb, la, k) ==
    /\ Len(after) = Len(before)
    /\ \A i \in 1..Len(before) :
           Rec(after[i]) = IF i = k
                           THEN [Rec(before[k]) EXCEPT !.isfile = FALSE, !.name = << >>, !.date = 0]
                           ELSE Rec(before[i])
    /\ la.err = nil
    /\ la.fis = Without(lb, Cardinality({i \in 1..k : before[i].isfile}))

\* the name a call took, without its side and in upper case
Bare(l) == ToUpper(getFS(disks[l.disk], l.name).name)

\* C2: in a directory that scans to its end and holds F once, after Remove(F)
\* returned nil List is the listing of before without the record of F, and the
\* scan has, where F was, a free extent of F's size and starting block; every
\* other entry is as before
C2_RemoveLeavesFreeExtent ==
    (last.op = "Remove" /\ last.err = nil /\ last.wf /\ last.occ = 1) =>
        RemovedAt(last.before, Records(SideView(last)).acc, last.listed,
                  FSList(SideView(last)), Where(last.before, Bare(last)))

\* C2: the 3 block file X at block 14 of side A has been removed, and the
\* scan finds a free extent of 3 blocks starting at block 14 in its place
C2_Witness ==
    /\ last.op = "Remove" /\ last.err = nil /\ last.wf /\ last.occ = 1
    /\ last.name = sX /\ last.side = 0
    /\ Rec(Records(SideView(last)).acc[1])
         = [isfile |-> FALSE, name |-> << >>, date |-> 0, size |-> 3, block0 |-> 14,
            index |-> 1]

-----------------------------------------------------------------------------
(* Claims about OpenImage and Close, under SpecConc and SpecOpen.          *)

\* C4: of the calls of OpenImage for one absolute path with no Close of that
\* path between them, all that return a handle return the same one, and the
\* image is opened and registered by one of them only
C4_OneHandlePerPath ==
    \A p \in AbsPaths :
        /\ Cardinality(opened[p].handles) <= 1
        /\ Cardinality(opened[p].fds) <= 1
        /\ opened[p].handles \subseteq {drives[p]}

\* C4: goroutine 2 has been answered with the handle another call registered
C4_Witness ==
    /\ last.op = "OpenImage" /\ last.g = 2 /\ last.err = nil /\ last.fd = 0
    /\ opened[last.path].handles = {last.disk}
    /\ opened[last.path].fds = {disks[last.disk].fd}

\* C5: a call RK05.OpenImage that opened and measured the file succeeds with
\* Sides = 1 on a file of 1,662,976 bytes and with Sides = 2 on a file of
\* 3,325,952 bytes, and after any success Bytes * Sides <= size and Sides >= 1
C5_SidesFitTheFile ==
    (last.op = "OpenImage" /\ last.d = RK05 /\ last.fd # 0 /\ last.err # "stat") =>
        /\ files[last.path].size = RK05.Bytes =>
               (last.err = nil /\ disks[last.disk].drive.Sides = 1)
        /\ files[last.path].size = 2 * RK05.Bytes =>
               (last.err = nil /\ disks[last.disk].drive.Sides = 2)
        /\ last.err = nil =>
               /\ disks[last.disk].drive.Bytes * disks[last.disk].drive.Sides
                    <= files[last.path].size
               /\ disks[last.disk].drive.Sides >= 1

\* C6: after Disk.Close the registry has no entry for the path of the disk
\* and the descriptor of the disk is closed
C6_CloseClosesDescriptor ==
    last.op = "Close" => (drives[last.path] = 0 /\ ~fds[disks[last.disk].fd].open)

\* C7: a call of OpenImage that returns an error leaves the registry as it
\* was and, if it had opened a descriptor, leaves that descriptor closed; a
\* call that changes the registry returns nil and adds the entry of its path
C7_FailedOpenLeavesNothing ==
    [][\A g \in Goroutines :
           (pc[g] \in {"open", "sides"} /\ pc'[g] = "idle") =>
               /\ last'.err # nil =>
                      (drives' = drives /\ (last'.fd # 0 => ~fds'[last'.fd].open))
               /\ drives' # drives =>
                      /\ last'.err = nil /\ last'.fd # 0 /\ fds'[last'.fd].open
                      /\ drives' = [drives EXCEPT ![last'.path] = last'.disk]]_vars

\* C7: a call has failed in the read of the Bytes * Sides prefix, after it
\* had opened the file, and its descriptor is closed
C7_Witness ==
    /\ last.op = "OpenImage" /\ last.err = "read" /\ last.fd # 0
    /\ ~fds[last.fd].open /\ drives[last.path] = 0

-----------------------------------------------------------------------------
(* Claims about File, under SpecFile.                                      *)

\* the side index a name asks for with its prefix
HasSide(name) == Len(name) > 2 /\ name[2] = Colon
SideIndex(name) == Or040(name[1]) - 97

\* C8: on a disk of k sides, File and Remove of a name whose prefix asks for
\* a side index outside [0, k) return side-not-found
C8_BadSideNotFound ==
    (last.op \in {"File", "Remove"} /\ HasSide(last.name)
     /\ SideIndex(last.name) \notin 0..(Len(disks[last.disk].sides) - 1)) =>
        last.err = "side not found"

\* a file in which only the blocks within bytes [lo, hi) are what they are
OnlyBytes(file, lo, hi) ==
    [size |-> file.size,
     blocks |-> [b \in {x \in DOMAIN file.blocks :
                           x * BlockBytes >= lo /\ (x + 1) * BlockBytes <= hi} |->
                    file.blocks[b]]]

\* the view of the second side of a disk over bytes [Bytes, 2 * Bytes) alone
SecondSide(d) ==
    [file |-> OnlyBytes(files[d.path], d.drive.Bytes, 2 * d.drive.Bytes),
     open |-> fds[d.fd].open, rw |-> fds[d.fd].rw,
     block0 |-> d.drive.Bytes \div BlockBytes, nblocks |-> d.drive.Bytes \div BlockBytes]

\* what a call of File returned
Returned(r) == [err |-> r.err, file |-> r.file]

\* C9: on a disk of two sides File("A:" X) returns what File(X) returns, and
\* File("B:" X) returns what FileSystem.File(X) returns on the view with
\* block0 = nblocks = Bytes / 512 over bytes [Bytes, 2 * Bytes) of the image
C9_SidePrefixes ==
    (last.op = "File" /\ Len(disks[last.disk].sides) = 2 /\ HasSide(last.name)) =>
        /\ SideIndex(last.name) = 0 =>
               Returned(last)
                 = Returned(DiskFile(disks[last.disk], SubSeq(last.name, 3, Len(last.name))))
        /\ SideIndex(last.name) = 1 =>
               Returned(last)
                 = FSFile(SecondSide(disks[last.disk]), SubSeq(last.name, 3, Len(last.name)))

\* C9: File("B:X") has returned the file X of the second side
C9_Witness ==
    /\ last.op = "File" /\ last.name = Side(66, sX) /\ last.err = nil
    /\ Len(disks[last.disk].sides) = 2
    /\ last.file.block0 = RKBlocks /\ last.file.date = 801

\* the words of size blocks from block start of a view
WordsAt(v, start, size) == raw2words(RawBlocks(v.file, v.block0 + start, size))

\* the least element of a set of numbers
Least(m) == CHOOSE k \in m : \A j \in m : k <= j

\* l is what File returned for name, dir the complete scan of the view v
FirstMatch(v, name, dir, l) ==
    /\ l.err = nil =>
           /\ Matches(dir.acc, name) # {}
           /\ l.file = [name   |-> name,
                        date   |-> dir.acc[Least(Matches(dir.acc, name))].date,
                        size   |-> dir.acc[Least(Matches(dir.acc, name))].size,
                        dir    |-> dir.acc[Least(Matches(dir.acc, name))].index,
                        loc    |-> dir.acc[Least(Matches(dir.acc, name))].loc,
                        offset |-> dir.acc[Least(Matches(dir.acc, name))].block0,
                        words  |-> WordsAt(v, dir.acc[Least(Matches(dir.acc, name))].block0,
                                           dir.acc[Least(Matches(dir.acc, name))].size),
                        block0 |-> v.block0]
    /\ (dir.err = nil /\ Matches(dir.acc, name) = {}) => l.err = "file not found"
    /\ l.err = "file not found" => (dir.err = nil /\ Matches(dir.acc, name) = {})

\* C10: FileSystem.File of a directory name returns, for the name in upper
\* case, the first file entry of that name in directory order, with its size,
\* date, directory block, location, starting block and the words of its
\* blocks; it returns file-not-found exactly when a complete scan has no
\* file entry of that name
C10_FileFirstMatch ==
    (last.op = "File" /\ last.side >= 0 /\ Bare(last) # << >>
     /\ ~HasPrefix(Bare(last), dotBlock)) =>
        FirstMatch(SideView(last), Bare(last), Records(SideView(last)), last)

\* C10: File("b:x") has returned the first of the two entries X of side B
C10_Witness ==
    /\ last.op = "File" /\ last.name = Side(98, << 120 >>) /\ last.err = nil
    /\ Cardinality(Matches(Records(SideView(last)).acc, sX)) = 2
    /\ last.file.name = sX /\ last.file.date = 801 /\ last.file.size = 1

\* block numbers that are asked for
BlockNums == {0, 7, 14, 16, 20, RKBlocks - 1, RKBlocks, 2 * RKBlocks - 1, 9999}

\* what File returned, but for the name the handle repeats from the request
Unnamed(r) == [err |-> r.err, file |-> [r.file EXCEPT !.name = << >>]]

\* l is what File returned on the view v for blocks st to en
BlocksReturned(v, l, st, en) ==
    /\ (st <= en /\ en < v.nblocks) =>
           /\ l.err = nil /\ l.file.size = en - st + 1 /\ l.file.offset = st
           /\ l.file.words = WordsAt(v, st, en - st + 1)
    /\ (en < st \/ st >= v.nblocks) => l.err = "invalid block range"
    /\ (st <= en /\ st < v.nblocks /\ en >= v.nblocks) =>
           /\ l.err = nil /\ l.file.size = v.nblocks - st /\ l.file.offset = st
           /\ l.file.words = WordsAt(v, st, v.nblocks - st)

C11_Cut ==
    /\ last.op = "File" /\ last.name = Side(66, Block2(RKBlocks - 1, 9999)) /\ last.err = nil
    /\ last.file.size = 1

-----------------------------------------------------------------------------
(* Claims about the codecs, under SpecFile.                                *)

\* C12: the words File returns are all below 2^12; the bytes File.Bytes
\* returns are, for every word w, w & 0xFF and then (w >> 8) & 0x0F; and the
\* native and the byte-by-byte paths of both conversions agree
C12_TwelveBitCodec ==
    /\ (last.op = "File" /\ last.err = nil) =>
           /\ \A i \in 1..Len(last.file.words) : last.file.words[i] < Neg
           /\ raw2wordsNative(words2raw(last.file.words))
                = raw2wordsCopy(words2raw(last.file.words))
    /\ last.op = "Bytes" =>
           /\ Len(last.out) = 2 * Len(last.file.words)
           /\ \A i \in 1..Len(last.file.words) :
                  /\ last.out[2 * i - 1] = last.file.words[i] % 256
                  /\ last.out[2 * i] = (last.file.words[i] \div 256) % 16
           /\ words2rawNative(last.file.words) = words2rawCopy(last.file.words)

\* C12: File.Bytes has returned a high byte whose top 4 bits are not zero
C12_WideByte ==
    /\ last.op = "Bytes"
    /\ \E i \in 1..Len(last.file.words) : last.out[2 * i] >= 16

\* C13 as stated: the words 0x1C1 and 0x2D2, unstripped, decode to the bytes
\* 0xC1, 0xD2, 0x20
C13_PackedExample ==
    (last.op = "ASCII" /\ ~last.strip /\ Len(last.file.words) >= 2
     /\ last.file.words[1] = 449 /\ last.file.words[2] = 722) =>
        SubSeq(last.out, 1, 3) = << 193, 210, 32 >>

\* C13: every pair of words (w0, w1) decodes, unstripped, to b0 = w0 & 0xFF,
\* b1 = w1 & 0xFF, b2 = ((w0 >> 4) & 0xF0) | ((w1 >> 8) & 0x0F); the words
\* 0x1C1 and 0x2D2 decode to the bytes 0xC1, 0xD2, 0x12
C13_PackedBytes ==
    (last.op = "ASCII" /\ ~last.strip) =>
        /\ \A i \in 1..(Len(last.file.words) \div 2) :
               /\ 3 * i - 2 <= Len(last.out) =>
                      last.out[3 * i - 2] = last.file.words[2 * i - 1] % 256
               /\ 3 * i - 1 <= Len(last.out) =>
                      last.out[3 * i - 1] = last.file.words[2 * i] % 256
               /\ 3 * i <= Len(last.out) =>
                      last.out[3 * i] = 16 * ((last.file.words[2 * i - 1] \div 256) % 16)
                                        + ((last.file.words[2 * i] \div 256) % 16)
        /\ (Len(last.file.words) >= 2 /\ last.file.words[1] = 449 /\ last.file.words[2] = 722) =>
               SubSeq(last.out, 1, 3) = << 193, 210, 18 >>

\* C13: File.ASCII(false) has decoded a file that begins with 0x1C1, 0x2D2
C13_Witness ==
    /\ last.op = "ASCII" /\ ~last.strip /\ Len(last.file.words) >= 2
    /\ last.file.words[1] = 449 /\ last.file.words[2] = 722
    /\ SubSeq(last.out, 1, 3) = << 193, 210, 18 >>

-----------------------------------------------------------------------------
(* Claims about names and the scanner.                                     *)

\* the file entries a complete scan of a view yields
FileRecs(v) == SelectSeq(Records(v).acc, LAMBDA r : r.isfile)

\* the 4 words of the name field of the entry a record stands for
NameWords(v, r) == [k \in 1..4 |-> W(getBlocks(v, r.index, 1).words, r.loc + k - 1)]

\* the number of files Disk.List lists before those of side s (1-based)
RECURSIVE ListedBefore(_, _)
ListedBefore(d, s) ==
    IF s = 1 THEN 0 ELSE ListedBefore(d, s - 1) + Len(FileRecs(View(d.sides[s - 1])))

\* a listed name without the side Disk.List puts before it
Sideless(d, name) == IF Len(d.sides) > 1 THEN SubSeq(name, 3, Len(name)) ELSE name

\* every listed file whose name field holds words is listed as name
ListedAs(d, fis, words, name) ==
    \A s \in 1..Len(d.sides) :
        \A j \in 1..Len(FileRecs(View(d.sides[s]))) :
            NameWords(View(d.sides[s]), FileRecs(View(d.sides[s]))[j]) = words =>
                Sideless(d, fis[ListedBefore(d, s) + j].Name) = name

\* C14 as stated: a file whose name field is 01616 01505 00000 00717 is
\* listed as NAME.GO
C14_NameExample ==
    (last.op = "List" /\ last.err = nil) =>
        ListedAs(disks[last.disk], last.fis, NnmeGo, sNAME \o << Dot >> \o sGO)

\* C14: a file whose name field is 01601 01505 00000 00717 is listed as
\* NAME.GO: the pairs of the first three words up to the first '@', then '.'
\* and the characters of the fourth word up to '@'; the field 01616 01505
\* 00000 00717 is listed as NNME.GO
C14_NameDecoded ==
    (last.op = "List" /\ last.err = nil) =>
        /\ ListedAs(disks[last.disk], last.fis, NameGo, sNAME \o << Dot >> \o sGO)
        /\ ListedAs(disks[last.disk], last.fis, NnmeGo, << 78, 78, 77, 69, Dot >> \o sGO)

\* C14: List has listed the file of side A whose name field is 01601 01505
\* 00000 00717
C14_Witness ==
    /\ last.op = "List" /\ last.err = nil /\ Len(disks[last.disk].sides) = 2
    /\ \E j \in 1..Len(last.fis) :
           /\ j <= Len(FileRecs(View(disks[last.disk].sides[1])))
           /\ NameWords(View(disks[last.disk].sides[1]),
                        FileRecs(View(disks[last.disk].sides[1]))[j]) = NameGo
           /\ last.fis[j].Name = Side(65, sNAME \o << Dot >> \o sGO)

\* the entries a scan of view v hands to its callback, up to the scan's end
Yielded(v) == { Records(v).acc[j] : j \in 1..Len(Records(v).acc) }

\* C15: once List has scanned a disk, every entry the scan of one of its
\* sides hands to the callback, file or free, ends within the side:
\* block0 + size <= nblocks
C15_ExtentBound ==
    last.op = "List" =>
        \A s \in 1..Len(disks[last.disk].sides) :
            \A r \in Yielded(View(disks[last.disk].sides[s])) :
                r.block0 + r.size <= disks[last.disk].sides[s].nblocks

\* C15: List has scanned a side where a free entry ends past the side's last
\* block, and a file entry that does so ended the scan
C15_FreePastEnd ==
    /\ last.op = "List" /\ last.err = "corrupt directory"
    /\ \E r \in Yielded(View(disks[last.disk].sides[1])) :
           ~r.isfile /\ r.block0 + r.size > disks[last.disk].sides[1].nblocks

\* the directory blocks of view v from block index on, as the headers chain
\* them, up to the first block met again
RECURSIVE Chain(_, _, _)
Chain(v, index, seen) ==
    IF index = 0 \/ index \in seen \/ getBlocks(v, index, 1).err # nil THEN << index >>
    ELSE << index >> \o Chain(v, W(getBlocks(v, index, 1).words, 2), seen \cup {index})

\* C16: every call of File, List and Remove returns: no goroutine is left in
\* a scan that never ends
C16_ScanTerminates == \A g \in Goroutines : pc[g] # "hung"

\* C16: List scans a side whose directory chain is 1 -> 2 -> 1 and never
\* returns
C16_ChainRevisits ==
    /\ last.op = "List" /\ pc[last.g] = "hung"
    /\ Chain(View(disks[last.disk].sides[1]), 1, {}) = << 1, 2, 1 >>

\* no two of the records share a block
Disjoint(recs) ==
    \A i, j \in 1..Len(recs) :
        (i < j /\ recs[i].size > 0 /\ recs[j].size > 0) =>
            \/ recs[i].block0 + recs[i].size <= recs[j].block0
            \/ recs[j].block0 + recs[j].size <= recs[i].block0

\* the first record of a directory block starts at the block0 of its header,
\* every later one where the record before it ends
Contiguous(v, recs) ==
    \A j \in 1..Len(recs) :
        IF j > 1 /\ recs[j - 1].index = recs[j].index
        THEN recs[j].block0 = recs[j - 1].block0 + recs[j - 1].size
        ELSE recs[j].block0 = W(getBlocks(v, recs[j].index, 1).words, 1)

\* C17: when List has scanned the sides of a disk without error, no two
\* entries the scan of one side yields, file or free, of the same or of
\* different directory blocks, share a block, and within a directory block
\* the entries follow one another from the header's block0 on
C17_NoOverlap ==
    (last.op = "List" /\ last.err = nil) =>
        \A s \in 1..Len(disks[last.disk].sides) :
            /\ Disjoint(Records(View(disks[last.disk].sides[s])).acc)
            /\ Contiguous(View(disks[last.disk].sides[s]),
                          Records(View(disks[last.disk].sides[s])).acc)

\* C17: List has scanned side B without error: within each directory block
\* its entries follow one another, and two entries of different directory
\* blocks share a block
C17_BlocksOverlap ==
    /\ last.op = "List" /\ last.err = nil /\ Len(disks[last.disk].sides) = 2
    /\ Contiguous(View(disks[last.disk].sides[2]), Records(View(disks[last.disk].sides[2])).acc)
    /\ ~Disjoint(Records(View(disks[last.disk].sides[2])).acc)

-----------------------------------------------------------------------------
(* Claims about the directory block Remove writes, under SpecRemove.       *)

\* the words of block b of an image file
BlockWordsOf(f, b) == raw2words(RawBlocks(f, b, 1))

\* new is old with the file entry at word loc made a free entry of the same
\* length and the words behind it, but for the last four, moved up by four
Rewritten(old, new, loc) ==
    \A i \in 0..(BlockWords - 1) :
        W(new, i) = IF i = loc THEN 0
                    ELSE IF i = loc + 1 THEN (Neg - EntryLen(W(old, loc + 5))) % U16
                    ELSE IF i >= loc + 2 /\ i < BlockWords - 4 THEN W(old, i + 4)
                    ELSE W(old, i)

\* C18: a Remove that returns nil for the entry at word loc, of length size,
\* leaves the directory block with word[loc] = 0, word[loc+1] = 010000 - size,
\* word[i] = the old word[i+4] for i in [loc+2, 252), and every other word,
\* those before loc and the last four, as it was
C18_RemoveRewrites ==
    [][(last'.op = "Remove" /\ last'.err = nil) =>
           Rewritten(BlockWordsOf(files[PathOf(last')], ImageBlock(last')),
                     BlockWordsOf(files'[PathOf(last')], ImageBlock(last')),
                     last'.loc)]_vars

\* C18: the second file X of side B, of 2 blocks and at word 13 once the
\* first is removed, has been removed: a free entry of 2 blocks is at word
\* 13, and the header and the last word of the block are as they were
C18_Witness ==
    /\ last.op = "Remove" /\ last.err = nil /\ last.side = 1 /\ last.loc = 13
    /\ SubSeq(BlockWordsOf(files[PathOf(last)], ImageBlock(last)), 1, 5)
         = << Neg - 3, 7, 2, 1365, 2730 >>
    /\ SubSeq(BlockWordsOf(files[PathOf(last)], ImageBlock(last)), 14, 15) = << 0, Neg - 2 >>
    /\ W(BlockWordsOf(files[PathOf(last)], ImageBlock(last)), 255) = 3000 + 256

-----------------------------------------------------------------------------
(* Claims about the answers of the scan's callback, under SpecFile.        *)

\* the scan of view v with a callback that answers a for the k-th entry
Probe(v, k, a) == scan(v, [kind |-> "Probe", at |-> k, answer |-> a], << >>)

\* recs being the entries of the scan of v that no answer cuts short: what
\* the scan does when the callback answers stopReading, skipBlock or another
\* error for the k-th of them
Obeyed(v, dir, k) ==
    /\ Probe(v, k, stopReading) = [err |-> nil, acc |-> SubSeq(dir.acc, 1, k)]
    /\ Probe(v, k, "callback error") = [err |-> "callback error", acc |-> SubSeq(dir.acc, 1, k)]
    /\ dir.err = nil =>
           Probe(v, k, skipBlock)
             = [err |-> nil,
                acc |-> SelectSeq(dir.acc, LAMBDA r : \/ r.index # dir.acc[k].index
                                                      \/ r.loc <= dir.acc[k].loc)]

\* C19: a scan whose callback answers stopReading for an entry ends there
\* with no error; one whose callback answers skipBlock goes on with the
\* first entry of the next directory block of the chain, if there is one;
\* another error of the callback ends the scan and is its error; and File,
\* List and Remove return neither stopReading nor skipBlock
C19_ControlValues ==
    /\ last.op \in {"File", "List", "Remove"} => last.err \notin {stopReading, skipBlock}
    /\ last.op = "List" =>
           \A s \in 1..Len(disks[last.disk].sides) :
               \A k \in 1..Len(Records(View(disks[last.disk].sides[s])).acc) :
                   Obeyed(View(disks[last.disk].sides[s]),
                          Records(View(disks[last.disk].sides[s])), k)

\* C19: List has scanned side A, of two directory blocks with 3 and 2
\* entries: with skipBlock for its first entry the scan hands on that entry
\* and the 2 of the second block, with stopReading for its fourth entry, which
\* File answers for NAME.GO, the 4 first
C19_Witness ==
    /\ last.op = "List" /\ last.err = nil /\ Len(disks[last.disk].sides) = 2
    /\ Len(Records(View(disks[last.disk].sides[1])).acc) = 5
    /\ Len(Probe(View(disks[last.disk].sides[1]), 1, skipBlock).acc) = 3
    /\ Probe(View(disks[last.disk].sides[1]), 1, skipBlock).acc[2].index = 2
    /\ Len(Probe(View(disks[last.disk].sides[1]), 4, stopReading).acc) = 4
    /\ FSFile(View(disks[last.disk].sides[1]), sLower).file.loc
         = Probe(View(disks[last.disk].sides[1]), 4, stopReading).acc[4].loc

-----------------------------------------------------------------------------
(* Claims about the end of OpenImage, under SpecOpenLive.                  *)

\* C20: every call of OpenImage that has resolved its path returns, with a
\* handle or an error, whatever the drive and the size of the file, and a
\* call that returns a handle leaves a disk with Sides >= 1 whose views all
\* have nblocks = Bytes / 512
C20_OpenImageReturns ==
    /\ \A g \in Goroutines : (pc[g] = "lock") ~> (pc[g] = "idle")
    /\ [](\A d \in 1..Len(disks) :
              /\ disks[d].drive.Sides >= 1
              /\ Len(disks[d].sides) = disks[d].drive.Sides
              /\ \A s \in 1..Len(disks[d].sides) :
                     disks[d].sides[s].nblocks = disks[d].drive.Bytes \div BlockBytes)

\* C20: RX01.OpenImage of a file longer than 256,256 bytes, and
\* RK05.OpenImage of one longer than 3,325,952 bytes, have left their loop
\* over Sides in a panic
C20_LongerFile ==
    /\ last.op = "OpenImage" /\ last.err = "panic" /\ pc[last.g] = "panicked"
    /\ \/ last.d = RX01 /\ files[last.path].size > RX01.Bytes * RX01.Sides
       \/ last.d = RK05 /\ files[last.path].size > RK05.Bytes * RK05.Sides

-----------------------------------------------------------------------------
(* Claims about handles of the registry, under SpecRemove.                 *)

\* the descriptor of disk d was opened for reading only
ReadOnly(d) == ~fds[disks[d].fd].rw

\* C21: a call of OpenImage that finds its path in the registry returns the
\* registered handle, whatever its rw flag and its drive, and opens nothing;
\* so a handle opened with rw = false is what a later call with rw = true
\* gets, and a Remove through it of a file that is in the directory returns
\* the error of the write and leaves every byte of every file as it was
C21_RegisteredHandle ==
    [][/\ \A g \in Goroutines :
              (pc[g] = "open" /\ drives[frame[g].path] # 0) =>
                  /\ pc'[g] = "idle" /\ last'.op = "OpenImage" /\ last'.err = nil
                  /\ last'.disk = drives[frame[g].path]
                  /\ disks' = disks /\ fds' = fds /\ drives' = drives
       /\ (last'.op = "Remove" /\ ReadOnly(last'.disk) /\ last'.occ >= 1) =>
              (last'.err = "write" /\ files' = files)]_vars

\* C21: the image was opened once, as an RK05 and with rw = false, a call
\* with rw = true was answered with that handle, and Remove of X through the
\* handle has returned the error of the write
C21_Witness ==
    /\ last.op = "Remove" /\ last.err = "write" /\ last.name = sX /\ last.occ >= 1
    /\ ReadOnly(last.disk) /\ disks[last.disk].drive = RK05
    /\ opened[PathOf(last)].asked = {FALSE, TRUE}
    /\ opened[PathOf(last)].handles = {last.disk}
    /\ Len(fds) = 1

====
